---- MODULE Spec2Model ----
(***************************************************************************)
(* Quota-aware endpoint selection and accounting of lambda_function.py.    *)
(* Several handler invocations run concurrently and share one DynamoDB     *)
(* table; every table call (scan, update_item) is one atomic step, the     *)
(* code between two table calls is local to the invocation.  The wall      *)
(* clock is read once per endpoint, in reset_if_needed; a reading is any   *)
(* second not earlier than the latest one.  The history variables record   *)
(* what was written and by whom; no action reads them.                     *)
(***************************************************************************)
EXTENDS Integers, Sequences, FiniteSets, TLC

\* ---------------------------------------------------------------- bounds
MaxRequests == 2      \* handler invocations started in one behaviour
MaxStamp == 121       \* largest provisioned last_reset of StampedSpec
MaxClock == 61        \* last wall-clock second of a behaviour

\* ------------------------------------------------------ program constants
WindowSeconds == 60   \* the divisor of "current_time // 60 > last_reset // 60"
Increment == 1        \* default of update_quota(region, increment=1)

\* ------------------------------------------------------------ input sets
Handlers == {"h1", "h2"}                    \* concurrent invocations
Regions == {"us-east-1", "us-west-2"}       \* keys the table may hold
TotalQuota == [r \in Regions |-> IF r = "us-east-1" THEN 1 ELSE 2]  \* provisioned
InitUsed == {0, 2}                          \* provisioned used_quota values
Events == {"valid", "no_body", "bad_json", "no_prompt", "empty_prompt",
           "null_body", "non_object"}
None == "none"

VARIABLES
  store,        \* the table: region -> item
  clock,        \* the latest reading of time.time(), in seconds
  started,      \* number of invocations started so far
  pc,           \* position of each invocation in lambda_handler
  endpoints,    \* local list returned by get_available_endpoints()
  idx,          \* position of the "for endpoint in endpoints" loop
  current_time, \* local of reset_if_needed
  region,       \* local "region" of lambda_handler
  response,     \* value returned by lambda_handler
  resetLog,     \* history: per loop position, the clock read and the reset written
  invoked,      \* history: invoke_model was called by this invocation
  charged,      \* history: number of update_quota writes of this invocation
  event,        \* history: the payload of the latest invocation
  failed,       \* history: a table operation of this invocation raised ClientError
  ledger        \* history: per region, window of the latest reset and counts of
                \* the writes: since (charges since the first reset of that
                \* window), resets (reset writes of that window), charges
                \* (all charges), afterReset (charges since the latest reset)

vars == <<store, clock, started, pc, endpoints, idx, current_time, region,
          response, resetLog, invoked, charged, event, failed, ledger>>

\* ------------------------------------------------------------- helpers
Window(t) == t \div WindowSeconds

Resp(code, body) == [statusCode |-> code, body |-> body]

NoResponse == Resp(0, None)

\* An exception leaves lambda_handler: there is no result dictionary.
Unhandled == Resp(0, "unhandled exception")

\* All orders in which a scan may return the items of the table.
Perms(S) ==
  {s \in [1..Cardinality(S) -> S] : \A i, j \in 1..Cardinality(S) : i # j => s[i] # s[j]}

\* table.scan(): the items, each with its key, in the order s.
get_available_endpoints(s) ==
  [i \in 1..Len(s) |-> [region |-> s[i],
                        total_quota |-> store[s[i]].total_quota,
                        used_quota |-> store[s[i]].used_quota,
                        last_reset |-> store[s[i]].last_reset,
                        request_count |-> store[s[i]].request_count]]

\* Mutant: the empty scan is not detected.
NoEndpointsIgnored(eps) == FALSE

\* "if not endpoints": the scan returned no item.
NoEndpoints(eps) == Len(eps) = 0

\* Mutant: the minutes only have to differ.
should_reset_differs(now, last_reset) == Window(now) # Window(last_reset)

\* current_time // 60 > last_reset // 60
should_reset(now, last_reset) == Window(now) > Window(last_reset)

\* Mutant: headroom is clamped at zero.
HeadroomClamped(x) ==
  IF x.total_quota > x.used_quota THEN x.total_quota - x.used_quota ELSE 0

\* key of max(): x['total_quota'] - x['used_quota']
Headroom(x) == x.total_quota - x.used_quota

\* Mutant: a later item of equal key replaces the candidate.
BetterOrEqual(x, best) == Headroom(x) >= Headroom(best)

\* max() replaces its candidate only by an item whose key is strictly greater.
Better(x, best) == Headroom(x) > Headroom(best)

RECURSIVE MaxFrom(_, _, _)
MaxFrom(eps, i, best) ==
  IF i > Len(eps) THEN best
  ELSE MaxFrom(eps, i + 1, IF Better(eps[i], eps[best]) THEN i ELSE best)

select_best_index(eps) == MaxFrom(eps, 2, 1)

select_best_endpoint(eps) == eps[select_best_index(eps)]

\* Mutant: the reset zeroes request_count as well.
ResetItemZeroCount(item, now) ==
  [item EXCEPT !.used_quota = 0, !.last_reset = now, !.request_count = 0]

\* Mutant: the reset replaces the whole item, as a put_item would.
ResetItemPut(item, now) ==
  [total_quota |-> 0, used_quota |-> 0, last_reset |-> now,
   request_count |-> item.request_count]

\* Mutant: the reset stamps the time and leaves the usage.
ResetItemStampOnly(item, now) == [item EXCEPT !.last_reset = now]

\* Mutant: the reset zeroes the usage and leaves the timestamp.
ResetItemKeepStamp(item, now) == [item EXCEPT !.used_quota = 0]

\* UpdateExpression "SET used_quota = :zero, last_reset = :now"
ResetItem(item, now) == [item EXCEPT !.used_quota = 0, !.last_reset = now]

\* Mutant: the charge subtracts the increment.
ChargeItemRefund(item, inc) ==
  [item EXCEPT !.used_quota = @ - inc, !.request_count = @ + 1]

\* Mutant: the charge writes request_count = :one instead of adding to it.
ChargeItemCountOne(item, inc) ==
  [item EXCEPT !.used_quota = @ + inc, !.request_count = 1]

\* Mutant: the charge leaves request_count alone.
ChargeItemNoCount(item, inc) == [item EXCEPT !.used_quota = @ + inc]

\* UpdateExpression "SET used_quota = used_quota + :inc, request_count = request_count + :one"
ChargeItem(item, inc) ==
  [item EXCEPT !.used_quota = @ + inc, !.request_count = @ + 1]

\* History of a reset write of value now to a region.
LedgerReset(l, now) ==
  IF Window(now) > l.win
  THEN [l EXCEPT !.win = Window(now), !.since = 0, !.resets = 1, !.afterReset = 0]
  ELSE IF Window(now) = l.win THEN [l EXCEPT !.resets = @ + 1, !.afterReset = 0]
  ELSE [l EXCEPT !.afterReset = 0]

\* History of a charge write to a region.
LedgerCharge(l) ==
  [l EXCEPT !.since = @ + 1, !.charges = @ + 1, !.afterReset = @ + 1]

\* ---------------------------------------------------------------- Init
Init ==
  /\ \E pool \in SUBSET Regions :
       \E used \in [pool -> InitUsed] :
         store = [r \in pool |-> [total_quota |-> TotalQuota[r], used_quota |-> used[r],
                                  last_reset |-> 0, request_count |-> 0]]
  /\ clock = WindowSeconds - 1
  /\ started = 0
  /\ pc = [p \in Handlers |-> "idle"]
  /\ endpoints = [p \in Handlers |-> <<>>]
  /\ idx = [p \in Handlers |-> 0]
  /\ current_time = [p \in Handlers |-> 0]
  /\ region = [p \in Handlers |-> None]
  /\ response = [p \in Handlers |-> NoResponse]
  /\ resetLog = [p \in Handlers |-> <<>>]
  /\ invoked = [p \in Handlers |-> FALSE]
  /\ charged = [p \in Handlers |-> 0]
  /\ event = [p \in Handlers |-> None]
  /\ failed = [p \in Handlers |-> FALSE]
  /\ ledger = [r \in DOMAIN store |->
                 [win |-> Window(store[r].last_reset),
                  since |-> store[r].used_quota, resets |-> 0,
                  charges |-> 0, afterReset |-> store[r].used_quota]]

\* ------------------------------------------------------------- actions
\* The invocation returns resp; its locals go out of scope.
Return(p, resp) ==
  /\ pc' = [pc EXCEPT ![p] = "idle"]
  /\ response' = [response EXCEPT ![p] = resp]
  /\ endpoints' = [endpoints EXCEPT ![p] = <<>>]
  /\ idx' = [idx EXCEPT ![p] = 0]
  /\ current_time' = [current_time EXCEPT ![p] = 0]
  /\ region' = [region EXCEPT ![p] = None]
  /\ resetLog' = [resetLog EXCEPT ![p] = <<>>]

\* Mutant: the failed table operation is tried again.
StoreFailedRetried(p) ==
  /\ failed' = [failed EXCEPT ![p] = TRUE]
  /\ UNCHANGED <<pc, response, endpoints, idx, current_time, region, resetLog>>

\* "except ClientError": a failed scan or update_item ends the invocation
\* with the 500 result.
StoreFailed(p) ==
  /\ failed' = [failed EXCEPT ![p] = TRUE]
  /\ Return(p, Resp(500, "ClientError"))

\* int(time.time()): the wall clock never goes back, so a reading is any
\* second from the latest reading on.
Readings == clock..MaxClock

\* lambda_handler is entered; the payload is parsed and validated.
Begin(p) ==
  /\ pc[p] = "idle"
  /\ started < MaxRequests
  /\ started' = started + 1
  /\ invoked' = [invoked EXCEPT ![p] = FALSE]
  /\ charged' = [charged EXCEPT ![p] = 0]
  /\ failed' = [failed EXCEPT ![p] = FALSE]
  /\ \E ev \in Events :
       /\ event' = [event EXCEPT ![p] = ev]
       /\ \/ /\ ev = "valid"
             /\ pc' = [pc EXCEPT ![p] = "scan"]
             /\ response' = [response EXCEPT ![p] = NoResponse]
             /\ UNCHANGED <<endpoints, idx, current_time, region, resetLog>>
          \/ /\ ev \in {"no_prompt", "empty_prompt"}
             /\ Return(p, Resp(400, "Prompt is required"))
          \/ /\ ev \in {"no_body", "bad_json"}
             /\ Return(p, Resp(400, "Invalid input"))
          \* json.loads(None) raises TypeError and [..].get AttributeError:
          \* neither is a ValueError or a KeyError.
          \/ /\ ev \in {"null_body", "non_object"}
             /\ Return(p, Unhandled)
  /\ UNCHANGED <<store, clock, ledger>>

\* The position after endpoint i of the reset loop.
Advance(p) ==
  /\ idx' = [idx EXCEPT ![p] = @ + 1]
  /\ pc' = [pc EXCEPT ![p] = IF idx[p] = Len(endpoints[p]) THEN "select" ELSE "check"]

\* endpoints = get_available_endpoints(); "if not endpoints".
Scan(p) ==
  /\ pc[p] = "scan"
  /\ \/ \E s \in Perms(DOMAIN store) :
          IF NoEndpoints(get_available_endpoints(s))
          THEN Return(p, Resp(500, "No endpoints available")) /\ UNCHANGED failed
          ELSE /\ endpoints' = [endpoints EXCEPT ![p] = get_available_endpoints(s)]
               /\ idx' = [idx EXCEPT ![p] = 1]
               /\ pc' = [pc EXCEPT ![p] = IF Len(s) = 0 THEN "select" ELSE "check"]
               /\ UNCHANGED <<current_time, region, response, resetLog>>
          /\ UNCHANGED failed
     \/ StoreFailed(p)
  /\ UNCHANGED <<store, clock, started, invoked, charged, event, ledger>>

\* reset_if_needed, up to the test of the minute.
ResetCheck(p) ==
  /\ pc[p] = "check"
  /\ \E now \in Readings :
       LET last_reset == endpoints[p][idx[p]].last_reset
       IN /\ clock' = now
          /\ IF should_reset(now, last_reset)
             THEN /\ current_time' = [current_time EXCEPT ![p] = now]
                  /\ pc' = [pc EXCEPT ![p] = "write"]
                  /\ UNCHANGED <<idx, resetLog>>
             ELSE /\ resetLog' = [resetLog EXCEPT ![p] =
                                    Append(@, [now |-> now, wrote |-> <<>>])]
                  /\ Advance(p)
                  /\ UNCHANGED current_time
  /\ UNCHANGED <<store, started, endpoints, region, response, invoked,
                 charged, event, failed, ledger>>

\* reset_if_needed, the update_item and the in-memory update.
ResetWrite(p) ==
  /\ pc[p] = "write"
  /\ LET r == endpoints[p][idx[p]].region
         now == current_time[p]
     IN \/ /\ store' = [store EXCEPT ![r] = ResetItem(@, now)]
           /\ endpoints' = [endpoints EXCEPT ![p][idx[p]].used_quota = 0]
           /\ ledger' = [ledger EXCEPT ![r] = LedgerReset(@, now)]
           /\ resetLog' = [resetLog EXCEPT ![p] =
                 Append(@, [now |-> now,
                            wrote |-> <<store'[r].used_quota, store'[r].last_reset>>])]
           /\ Advance(p)
           /\ UNCHANGED <<current_time, region, response, failed>>
        \/ /\ StoreFailed(p)
           /\ UNCHANGED <<store, ledger>>
  /\ UNCHANGED <<clock, started, invoked, charged, event>>

\* Mutant: the charge is written before the model is called.
SelectProceedReserving(p, r) ==
  /\ pc' = [pc EXCEPT ![p] = "invoke"]
  /\ region' = [region EXCEPT ![p] = r]
  /\ resetLog' = [resetLog EXCEPT ![p] = <<>>]
  /\ store' = [store EXCEPT ![r] = ChargeItem(@, Increment)]
  /\ ledger' = [ledger EXCEPT ![r] = LedgerCharge(@)]
  /\ charged' = [charged EXCEPT ![p] = @ + 1]
  /\ UNCHANGED <<endpoints, idx, current_time, response>>

\* The client was created: the handler goes on to build the payload and to
\* call invoke_model; nothing is written to the table on the way.
SelectProceed(p, r) ==
  /\ pc' = [pc EXCEPT ![p] = "invoke"]
  /\ region' = [region EXCEPT ![p] = r]
  /\ resetLog' = [resetLog EXCEPT ![p] = <<>>]
  /\ UNCHANGED <<store, charged, ledger>>
  /\ UNCHANGED <<endpoints, idx, current_time, response>>

\* select_best_endpoint and the creation of the client of its region.
Select(p) ==
  /\ pc[p] = "select"
  /\ \/ SelectProceed(p, select_best_endpoint(endpoints[p]).region)
     \/ /\ Return(p, Resp(500, "Error initializing Bedrock client"))
        /\ UNCHANGED <<store, charged, ledger>>
  /\ UNCHANGED <<clock, started, invoked, event, failed>>

\* Mutant: the failed model call is charged as well.
InvokeFailedCharging(p) ==
  /\ Return(p, Resp(500, "Bedrock invocation failed"))
  /\ store' = [store EXCEPT ![region[p]] = ChargeItem(@, Increment)]
  /\ ledger' = [ledger EXCEPT ![region[p]] = LedgerCharge(@)]
  /\ charged' = [charged EXCEPT ![p] = @ + 1]

\* "except Exception" around invoke_model: the 500 result is returned and
\* update_quota is not reached.
InvokeFailed(p) ==
  /\ Return(p, Resp(500, "Bedrock invocation failed"))
  /\ UNCHANGED <<store, charged, ledger>>

\* bedrock_client.invoke_model, from the call to its result.
Invoke(p) ==
  /\ pc[p] = "invoke"
  /\ invoked' = [invoked EXCEPT ![p] = TRUE]
  /\ \/ /\ pc' = [pc EXCEPT ![p] = "update"]
        /\ endpoints' = [endpoints EXCEPT ![p] = <<>>]
        /\ idx' = [idx EXCEPT ![p] = 0]
        /\ UNCHANGED <<current_time, region, response, resetLog>>
        /\ UNCHANGED <<store, charged, ledger>>
     \/ InvokeFailed(p)
  /\ UNCHANGED <<clock, started, event, failed>>

\* Mutant: the charge is refused once the endpoint is at its total_quota.
UpdateChargeCapped(p) ==
  /\ store[region[p]].used_quota < store[region[p]].total_quota
  /\ store' = [store EXCEPT ![region[p]] = ChargeItem(@, Increment)]
  /\ ledger' = [ledger EXCEPT ![region[p]] = LedgerCharge(@)]
  /\ charged' = [charged EXCEPT ![p] = @ + 1]
  /\ Return(p, Resp(200, region[p]))

\* update_quota(region) succeeds: the update_item has no ConditionExpression.
UpdateCharge(p) ==
  /\ store' = [store EXCEPT ![region[p]] = ChargeItem(@, Increment)]
  /\ ledger' = [ledger EXCEPT ![region[p]] = LedgerCharge(@)]
  /\ charged' = [charged EXCEPT ![p] = @ + 1]
  /\ Return(p, Resp(200, region[p]))

\* update_quota(region) and the 200 result.
Update(p) ==
  /\ pc[p] = "update"
  /\ \/ /\ UpdateCharge(p)
        /\ UNCHANGED failed
     \/ /\ StoreFailed(p)
        /\ UNCHANGED <<store, ledger, charged>>
  /\ UNCHANGED <<clock, started, invoked, event>>

Next ==
  \/ \E p \in Handlers : Begin(p)
  \/ \E p \in Handlers : Scan(p)
  \/ \E p \in Handlers : ResetCheck(p)
  \/ \E p \in Handlers : ResetWrite(p)
  \/ \E p \in Handlers : Select(p)
  \/ \E p \in Handlers : Invoke(p)
  \/ \E p \in Handlers : Update(p)

Spec == Init /\ [][Next]_vars

TypeOK ==
  /\ DOMAIN store \subseteq Regions
  /\ clock \in (WindowSeconds - 1)..MaxClock
  /\ started \in 0..MaxRequests
  /\ pc \in [Handlers -> {"idle", "scan", "check", "write", "select", "invoke", "update"}]
  /\ event \in [Handlers -> Events \cup {None}]
  /\ failed \in [Handlers -> BOOLEAN]

\* The table holds one endpoint whose last_reset is any stamp up to MaxStamp:
\* stamps of earlier windows, of the window of the clock and of later windows
\* (written by a host whose clock is ahead).
StampedInit ==
  /\ \E stamp \in 0..MaxStamp :
       store = [r \in {"us-east-1"} |->
                  [total_quota |-> TotalQuota[r], used_quota |-> 0,
                   last_reset |-> stamp, request_count |-> 0]]
  /\ clock = WindowSeconds - 1
  /\ started = 0
  /\ pc = [p \in Handlers |-> "idle"]
  /\ endpoints = [p \in Handlers |-> <<>>]
  /\ idx = [p \in Handlers |-> 0]
  /\ current_time = [p \in Handlers |-> 0]
  /\ region = [p \in Handlers |-> None]
  /\ response = [p \in Handlers |-> NoResponse]
  /\ resetLog = [p \in Handlers |-> <<>>]
  /\ invoked = [p \in Handlers |-> FALSE]
  /\ charged = [p \in Handlers |-> 0]
  /\ event = [p \in Handlers |-> None]
  /\ failed = [p \in Handlers |-> FALSE]
  /\ ledger = [r \in DOMAIN store |->
                 [win |-> Window(store[r].last_reset),
                  since |-> store[r].used_quota, resets |-> 0,
                  charges |-> 0, afterReset |-> store[r].used_quota]]

StampedSpec == StampedInit /\ [][Next]_vars

\* ---------------------------------------------------------------- claims
\* C1: when the concurrent invocations have all returned after charging the
\* same endpoint, its used_quota holds every charge applied to it since the
\* first reset write of its current window: no charge is erased by a reset
\* that another invocation of the same window writes later.
NoLostIncrement ==
  \A r \in DOMAIN store :
    (\A p \in Handlers : pc[p] = "idle" /\ response[p] = Resp(200, r))
      => store[r].used_quota = ledger[r].since

\* C6: at most one reset write is applied to an endpoint in one 60-second
\* window.
AtMostOneResetPerWindow == \A r \in DOMAIN store : ledger[r].resets <= 1

\* C7: the persisted last_reset of an endpoint never decreases.
LastResetMonotone ==
  [][\A r \in DOMAIN store : store'[r].last_reset >= store[r].last_reset]_vars

Remaining(x) == x.total_quota - x.used_quota

\* The position in eps of the item of region r.
IndexOf(eps, r) == CHOOSE i \in 1..Len(eps) : eps[i].region = r

\* The item at position k has the greatest remaining capacity of eps and is
\* the earliest item that has it.
FirstMaximum(eps, k) ==
  /\ \A j \in 1..Len(eps) : Remaining(eps[j]) <= Remaining(eps[k])
  /\ \A j \in 1..(k - 1) : Remaining(eps[j]) < Remaining(eps[k])

\* C4: the endpoint selected from a non-empty list has the maximal headroom
\* total_quota - used_quota of the list (negative headroom included), and is
\* the earliest of the list among those that have it.
SelectReturnsFirstMaximum ==
  \A p \in Handlers :
    pc[p] = "invoke"
      => /\ \E i \in 1..Len(endpoints[p]) : endpoints[p][i].region = region[p]
         /\ FirstMaximum(endpoints[p], IndexOf(endpoints[p], region[p]))

SelectReturnsFirstMaximumWitness ==
  \E p \in Handlers :
    /\ pc[p] = "invoke" /\ Len(endpoints[p]) = 2
    /\ Remaining(endpoints[p][1]) = Remaining(endpoints[p][2])
    /\ Remaining(endpoints[p][1]) < 0
    /\ region[p] = endpoints[p][1].region

\* The table differs from its previous value only by one charge of region r.
OnlyCharged(r) ==
  /\ r \in DOMAIN store
  /\ store'[r].used_quota = store[r].used_quota + 1
  /\ store'[r].request_count = store[r].request_count + 1
  /\ store'[r].total_quota = store[r].total_quota
  /\ store'[r].last_reset = store[r].last_reset
  /\ \A o \in DOMAIN store \ {r} : store'[o] = store[o]

\* C5: the step by which an invocation returns a region raises used_quota and
\* request_count of that region by exactly 1 each and changes no other
\* endpoint; no other step of an invocation changes a counter, except the
\* reset writes; an invocation that returned a region has charged once.
ReserveChargesExactlyOne ==
  [][\A p \in Handlers :
       /\ (pc[p] = "update" /\ response'[p].statusCode = 200)
            => OnlyCharged(region[p]) /\ response'[p].body = region[p]
                 /\ charged'[p] = 1
       /\ (pc[p] # pc'[p] /\ pc[p] \notin {"update", "write"}) => store' = store
       /\ (pc[p] = "update" /\ pc'[p] = "idle" /\ response'[p].statusCode # 200)
            => store' = store]_vars

ReserveChargesExactlyOneWitness ==
  \E p \in Handlers :
    /\ pc[p] = "idle" /\ response[p].statusCode = 200 /\ charged[p] = 1
    /\ Cardinality(DOMAIN store) = 2
    /\ store[response[p].body].request_count = 1
    /\ \A o \in DOMAIN store \ {response[p].body} : store[o].request_count = 0

EmptyPoolFails ==
  \A p \in Handlers :
    /\ DOMAIN store = {}
         => /\ pc[p] \in {"idle", "scan"}
            /\ ~invoked[p] /\ charged[p] = 0 /\ region[p] = None
            /\ response[p] \in {NoResponse, Unhandled, Resp(400, "Prompt is required"),
                                Resp(400, "Invalid input"), Resp(500, "ClientError"),
                                Resp(500, "No endpoints available")}
    /\ response[p] = Resp(500, "No endpoints available") => DOMAIN store = {}

EmptyPoolFailsWitness ==
  \E p \in Handlers :
    /\ DOMAIN store = {} /\ pc[p] = "idle"
    /\ response[p] = Resp(500, "No endpoints available")

\* Every item of eps is depleted: used_quota >= total_quota.
AllDepleted(eps) == \A i \in 1..Len(eps) : eps[i].used_quota >= eps[i].total_quota

\* C10: selection over a list of depleted endpoints is not an error: the step
\* either goes on to the model call with the first endpoint of maximal (zero
\* or least-negative) headroom, or ends with the client-creation error.
DepletedStillSelected ==
  [][\A p \in Handlers :
       (pc[p] = "select" /\ pc'[p] # "select" /\ AllDepleted(endpoints[p]))
         => \/ /\ pc'[p] = "invoke"
               /\ \E k \in 1..Len(endpoints[p]) :
                    /\ region'[p] = endpoints[p][k].region
                    /\ FirstMaximum(endpoints[p], k)
            \/ /\ pc'[p] = "idle"
               /\ response'[p] = Resp(500, "Error initializing Bedrock client")]_vars

DepletedStillSelectedWitness ==
  \E p \in Handlers :
    /\ pc[p] = "invoke" /\ Len(endpoints[p]) = 2
    /\ Remaining(endpoints[p][1]) = -1 /\ Remaining(endpoints[p][2]) = 0
    /\ region[p] = endpoints[p][2].region

\* C11: the persisted used_quota of every endpoint is never negative.
UsedQuotaNonNegative == \A r \in DOMAIN store : store[r].used_quota >= 0

UsedQuotaNonNegativeWitness ==
  \E r \in DOMAIN store :
    /\ store[r].used_quota = 0 /\ store[r].request_count = 1
    /\ ledger[r].resets = 2

\* A step is a reset write of region r by some invocation.
ResetStepOf(r) ==
  \E p \in Handlers :
    /\ pc[p] = "write" /\ pc'[p] \in {"check", "select"}
    /\ endpoints[p][idx[p]].region = r

\* A step is a charge write of region r by some invocation.
ChargeStepOf(r) ==
  \E p \in Handlers :
    pc[p] = "update" /\ response'[p].statusCode = 200 /\ region[p] = r

\* C12: request_count of an endpoint never decreases: a reset write leaves
\* it as it is, a charge raises it by exactly 1, and no other step changes it.
RequestCountMonotone ==
  [][\A r \in DOMAIN store :
       /\ store'[r].request_count >= store[r].request_count
       /\ ResetStepOf(r) => store'[r].request_count = store[r].request_count
       /\ ChargeStepOf(r) => store'[r].request_count = store[r].request_count + 1
       /\ (~ResetStepOf(r) /\ ~ChargeStepOf(r))
            => store'[r].request_count = store[r].request_count]_vars

RequestCountMonotoneWitness ==
  \E r \in DOMAIN store :
    /\ store[r].request_count = 1 /\ store[r].used_quota = 0
    /\ store[r].last_reset >= 60 /\ ledger[r].since = 1

\* C13: no step changes the set of items, nor the key or the total_quota of
\* an item.
OnlyCountersMutated ==
  [][/\ DOMAIN store' = DOMAIN store
     /\ \A r \in DOMAIN store : store'[r].total_quota = store[r].total_quota
     /\ \A r \in DOMAIN store :
          DOMAIN store'[r] = {"total_quota", "used_quota", "last_reset", "request_count"}]_vars

OnlyCountersMutatedWitness ==
  /\ Cardinality(DOMAIN store) = 2
  /\ \A r \in DOMAIN store : store[r].last_reset >= 60 /\ store[r].total_quota = TotalQuota[r]
  /\ \E r \in DOMAIN store : store[r].request_count >= 1
  /\ \A p \in Handlers : pc[p] = "idle" /\ response[p].statusCode \in {200, 500}

RECURSIVE SumOver(_, _)
\* The sum of f[r] over the regions of S.
SumOver(f, S) ==
  IF S = {} THEN 0
  ELSE LET r == CHOOSE x \in S : TRUE IN f[r] + SumOver(f, S \ {r})

\* C19: the request_count of the endpoints, all 0 at the start, add up to the
\* number of charge writes executed so far, whatever the interleaving with
\* resets and with other charges.
LifetimeAccountingExact ==
  SumOver([r \in DOMAIN store |-> store[r].request_count], DOMAIN store)
    = SumOver([r \in DOMAIN store |-> ledger[r].charges], DOMAIN store)

LifetimeAccountingExactWitness ==
  \E r \in DOMAIN store :
    /\ ledger[r].charges = 2 /\ ledger[r].resets = 2 /\ store[r].used_quota < 2
    /\ store[r].request_count = 2

\* C20: the persisted used_quota of an endpoint is its initial value plus the
\* charges applied to it if it was never reset, and otherwise the number of
\* charges applied after the latest reset write.
UsedQuotaIsChargesAfterReset ==
  \A r \in DOMAIN store : store[r].used_quota = ledger[r].afterReset

UsedQuotaIsChargesAfterResetWitness ==
  \E r \in DOMAIN store :
    /\ ledger[r].charges = 2 /\ ledger[r].afterReset = 1 /\ ledger[r].resets >= 1
    /\ store[r].used_quota = 1

\* C17: after a reset write the invocation's in-memory copy of the endpoint
\* agrees with what it wrote to the table, on used_quota and on last_reset.
InMemoryCopyAgrees ==
  \A p \in Handlers :
    \A i \in 1..Len(resetLog[p]) :
      resetLog[p][i].wrote # <<>>
        => /\ endpoints[p][i].used_quota = resetLog[p][i].wrote[1]
           /\ endpoints[p][i].last_reset = resetLog[p][i].wrote[2]

InvalidPayloads == Events \ {"valid"}

\* C14: an invocation with an invalid payload returns a 400 result without
\* reaching the table: it never leaves the validation, selects no endpoint,
\* calls no model and charges nothing, and its step leaves the table as it is.
InvalidPayloadRejected ==
  [][\A p \in Handlers :
       event'[p] \in InvalidPayloads
         => /\ pc'[p] = "idle" /\ response'[p].statusCode = 400
            /\ endpoints'[p] = <<>> /\ region'[p] = None
            /\ ~invoked'[p] /\ charged'[p] = 0
            /\ (pc[p] = "idle" /\ started' # started) => store' = store]_vars

LaterWindow(now, last) ==
  \E k \in 0..now : last < k * WindowSeconds /\ k * WindowSeconds <= now

\* C16: reset_if_needed decides to reset exactly when the time it read lies
\* in a later 60-second window than the endpoint's last_reset: not in the
\* same window and not in an earlier one.
ShouldResetIffLaterWindow ==
  [][\A p \in Handlers :
       (pc[p] = "check" /\ (pc'[p] = "write" \/ idx'[p] # idx[p]))
         => (pc'[p] = "write"
               <=> LaterWindow(clock', endpoints[p][idx[p]].last_reset))]_vars

\* The reset pass has left alone an endpoint whose last_reset lies in a
\* later window than the time it read.
ShouldResetIffLaterWindowWitness ==
  \E p \in Handlers :
    /\ pc[p] = "select" /\ Len(resetLog[p]) = 1
    /\ resetLog[p][1].wrote = <<>>
    /\ Window(resetLog[p][1].now) < Window(endpoints[p][1].last_reset)
====
